---------------------------- MODULE Spec2Model ----------------------------
(***************************************************************************)
(* A model of the kline collector (collector.py) and of its one-shot CSV   *)
(* migration script (migrate_inline.py).                                   *)
(*                                                                         *)
(* Time is in milliseconds, as in the program.  Text (the watermark file,  *)
(* the cells of the CSV file) is a sequence of one-character strings; a    *)
(* column name or a price is one opaque token.                             *)
(***************************************************************************)
EXTENDS Integers, Sequences, FiniteSets, TLC

(***************************************************************************)
(* Bounds of the model.  The program's LIMIT (1000), DAYS_BACKFILL (60)    *)
(* and INTERVAL ("5m") are configuration values; the model keeps their     *)
(* names and runs them at a scale where a lookback window holds a handful  *)
(* of candles and a page holds LIMIT of them.                              *)
(***************************************************************************)
LIMIT == 2

DAYS_BACKFILL == 1

IntervalHours == 8

\* The wall clock moves in half-interval ticks, at most MaxTicks of them.
MaxTicks == 4

\* The number of invocations of main a behaviour may start.
MaxRuns == 3

\* Milliseconds per second: ms / 1000 (ms_to_utc_str), * 1000 (utc_str_to_ms).
MsPerSec == 1000

SecPerDay == 24 * 60 * 60

\* The candle interval in milliseconds (INTERVAL, sent with every fetch).
Interval == IntervalHours * 60 * 60 * MsPerSec

\* DAYS_BACKFILL * 24 * 60 * 60 * 1000
BackfillWindow == DAYS_BACKFILL * 24 * 60 * 60 * 1000

\* Python's None.
None == -1

(***************************************************************************)
(* Text.                                                                   *)
(***************************************************************************)
DigitChar == <<"0", "1", "2", "3", "4", "5", "6", "7", "8", "9">>

IsDigitChar(c) == \E d \in 1..10 : DigitChar[d] = c

DigitVal(c) == (CHOOSE d \in 1..10 : DigitChar[d] = c) - 1

IsSpace(c) == c \in {" ", "\n"}

\* str(n) of a non-negative integer.
RECURSIVE IntToStr(_)
IntToStr(n) ==
    IF n < 10 THEN <<DigitChar[n + 1]>>
    ELSE Append(IntToStr(n \div 10), DigitChar[(n % 10) + 1])

\* The number that the first n digits of s spell.
RECURSIVE DigitsValue(_, _)
DigitsValue(s, n) ==
    IF n = 0 THEN 0 ELSE 10 * DigitsValue(s, n - 1) + DigitVal(s[n])

\* int(s) of a string of digits.
StrToInt(s) == DigitsValue(s, Len(s))

\* str.isdigit(): non-empty and every character a digit.
IsDigit(s) == Len(s) > 0 /\ \A i \in 1..Len(s) : IsDigitChar(s[i])

\* str.strip(): leading and trailing white space removed.
RECURSIVE Strip(_)
Strip(s) ==
    IF Len(s) = 0 THEN s
    ELSE IF IsSpace(s[1]) THEN Strip(Tail(s))
    ELSE IF IsSpace(s[Len(s)]) THEN Strip(SubSeq(s, 1, Len(s) - 1))
    ELSE s

\* strftime's %m, %d, %H, %M, %S: two digits, zero padded.
Pad2(n) == IF n < 10 THEN <<"0">> \o IntToStr(n) ELSE IntToStr(n)

\* strftime's %Y: four digits, zero padded.
Pad4(n) ==
    IF n < 10 THEN <<"0", "0", "0">> \o IntToStr(n)
    ELSE IF n < 100 THEN <<"0", "0">> \o IntToStr(n)
    ELSE IF n < 1000 THEN <<"0">> \o IntToStr(n)
    ELSE IntToStr(n)

UtcSuffix == <<" ", "U", "T", "C">>

\* s.replace(" UTC", ""): every occurrence removed, left to right.
RECURSIVE RemoveUtc(_)
RemoveUtc(s) ==
    IF Len(s) < 4 THEN s
    ELSE IF SubSeq(s, 1, 4) = UtcSuffix THEN RemoveUtc(SubSeq(s, 5, Len(s)))
    ELSE <<s[1]>> \o RemoveUtc(Tail(s))

(***************************************************************************)
(* The proleptic Gregorian calendar, as datetime computes it.              *)
(***************************************************************************)
IsLeap(y) == (y % 4 = 0) /\ ((y % 100 # 0) \/ (y % 400 = 0))

DaysInMonth(y, m) ==
    IF m = 2 THEN (IF IsLeap(y) THEN 29 ELSE 28)
    ELSE IF m \in {4, 6, 9, 11} THEN 30
    ELSE 31

\* Days from 1970-01-01 to y-m-d.
DaysFromCivil(y, m, d) ==
    LET yy  == IF m <= 2 THEN y - 1 ELSE y
        era == yy \div 400
        yoe == yy - era * 400
        mp  == IF m > 2 THEN m - 3 ELSE m + 9
        doy == (153 * mp + 2) \div 5 + d - 1
        doe == yoe * 365 + yoe \div 4 - yoe \div 100 + doy
    IN  era * 146097 + doe - 719468

\* The date <<y, m, d>> that lies `days` days after 1970-01-01.
CivilFromDays(days) ==
    LET z   == days + 719468
        era == z \div 146097
        doe == z - era * 146097
        yoe == (doe - doe \div 1460 + doe \div 36524 - doe \div 146096) \div 365
        doy == doe - (365 * yoe + yoe \div 4 - yoe \div 100)
        mp  == (5 * doy + 2) \div 153
        d   == doy - (153 * mp + 2) \div 5 + 1
        m   == IF mp < 10 THEN mp + 3 ELSE mp - 9
        y   == yoe + era * 400 + (IF m <= 2 THEN 1 ELSE 0)
    IN  <<y, m, d>>

(***************************************************************************)
(* TIME HELPERS                                                            *)
(***************************************************************************)
\* ms_to_utc_str: datetime.fromtimestamp(ms / 1000, tz=utc) formatted with
\* "%Y-%m-%d %H:%M:%S UTC"; the fraction of a second is not printed.
ms_to_utc_str(ms) ==
    LET secs == ms \div MsPerSec
        ymd  == CivilFromDays(secs \div SecPerDay)
        sod  == secs % SecPerDay
    IN  Pad4(ymd[1]) \o <<"-">> \o Pad2(ymd[2]) \o <<"-">> \o Pad2(ymd[3])
        \o <<" ">> \o Pad2(sod \div 3600) \o <<":">>
        \o Pad2((sod % 3600) \div 60) \o <<":">> \o Pad2(sod % 60)
        \o UtcSuffix

\* The number of digits (at most max) that s holds from position i on.
RECURSIVE DigitRun(_, _, _)
DigitRun(s, i, max) ==
    IF max = 0 \/ i > Len(s) \/ ~IsDigitChar(s[i]) THEN 0
    ELSE 1 + DigitRun(s, i + 1, max - 1)

\* The number of white-space characters that s holds from position i on.
RECURSIVE SpaceRun(_, _)
SpaceRun(s, i) ==
    IF i > Len(s) \/ ~IsSpace(s[i]) THEN 0 ELSE 1 + SpaceRun(s, i + 1)

\* A literal character of the format at position i.
Lit(s, i, c) == i <= Len(s) /\ s[i] = c

\* "%Y-%m-%d %H:%M:%S", directive by directive.
StrptimeFormat == <<"Y", "-", "m", "-", "d", " ", "H", ":", "M", ":", "S">>

\* strptime's match of s from position i against the format from directive k
\* on: the numbers read so far (acc) and those that follow, or <<>> where the
\* text does not match.  %Y takes four digits; %m, %d, %H, %M and %S take one
\* or two (%d also a blank and one digit); the blank of the format takes any
\* run of white space; nothing may follow the last directive.  (The number of
\* digits taken is bound by a quantifier, so that it is computed once.)
RECURSIVE Match(_, _, _, _)
Take(s, i, k, acc, n, least) ==
    CHOOSE r \in
        { IF m < least THEN <<>>
          ELSE Match(s, i + m, k + 1,
                     Append(acc, StrToInt(SubSeq(s, i, i + m - 1)))) :
            m \in {n} } : TRUE

Directive(s, i, k, acc, f) ==
    CASE f = "Y" -> Take(s, i, k, acc, DigitRun(s, i, 4), 4)
      [] f = "d" /\ Lit(s, i, " ") ->
             Take(s, i + 1, k, acc, DigitRun(s, i + 1, 1), 1)
      [] f \in {"m", "d", "H", "M", "S"} /\ ~Lit(s, i, " ") ->
             Take(s, i, k, acc, DigitRun(s, i, 2), 1)
      [] f = " " /\ SpaceRun(s, i) >= 1 ->
             Match(s, i + SpaceRun(s, i), k + 1, acc)
      [] f \in {"-", ":"} /\ Lit(s, i, f) -> Match(s, i + 1, k + 1, acc)
      [] OTHER -> <<>>

Match(s, i, k, acc) ==
    IF k > Len(StrptimeFormat)
    THEN (IF i = Len(s) + 1 THEN acc ELSE <<>>)
    ELSE Directive(s, i, k, acc, StrptimeFormat[k])

\* The values strptime and the datetime constructor accept.
ValidFields(f) ==
    /\ f[1] >= 1
    /\ f[2] \in 1..12
    /\ f[3] >= 1 /\ f[3] <= DaysInMonth(f[1], f[2])
    /\ f[4] <= 23 /\ f[5] <= 59 /\ f[6] <= 59

Accepted(f) == IF f # <<>> /\ ValidFields(f) THEN f ELSE <<>>

\* datetime.strptime(s, "%Y-%m-%d %H:%M:%S"): the fields <<Y, m, d, H, M, S>>,
\* or <<>> where it raises ValueError.  (The text and its match are bound by
\* quantifiers, so that each is computed once.)
Strptime(s) ==
    CHOOSE r \in {Accepted(f) : f \in {Match(t, 1, 1, <<>>) : t \in {s}}} : TRUE

\* Whether utc_str_to_ms(s) raises ValueError.
utc_str_raises(s) == Strptime(RemoveUtc(s)) = <<>>

\* (mutant) the timestamp is taken in seconds, not multiplied by 1000
FieldsToSeconds(f) ==
    DaysFromCivil(f[1], f[2], f[3]) * SecPerDay + f[4] * 3600 + f[5] * 60 + f[6]

\* dt.replace(tzinfo=utc).timestamp() * 1000
FieldsToMs(f) ==
    (DaysFromCivil(f[1], f[2], f[3]) * SecPerDay
     + f[4] * 3600 + f[5] * 60 + f[6]) * MsPerSec

\* utc_str_to_ms: strptime of the text without " UTC", taken as UTC, in ms.
utc_str_to_ms(s) ==
    CHOOSE r \in {FieldsToMs(dt) : dt \in {Strptime(RemoveUtc(s))}} : TRUE

(***************************************************************************)
(* The two files.  A file is [exists, ...]: the CSV file holds rows, each  *)
(* a sequence of cells; the state file holds one text.  A file that        *)
(* exists with no row (no character) has size 0.                           *)
(***************************************************************************)
Tok(w) == <<w>>

CSV_HEADER ==
    << Tok("open_time_ms"), Tok("open"), Tok("high"), Tok("low"), Tok("close"),
       Tok("volume"), Tok("close_time_ms"), Tok("quote_asset_volume"),
       Tok("num_trades"), Tok("taker_buy_base"), Tok("taker_buy_quote") >>

NoFile == [exists |-> FALSE, rows |-> <<>>]

NoState == [exists |-> FALSE, text |-> <<>>]

csv_is_empty_or_missing(f) == (~f.exists) \/ f.rows = <<>>

\* (mutant) the header is never written
ensure_csv_header_never(f) == f

\* open(CSV_PATH, "w") and one writerow, unless the file already holds text.
ensure_csv_header(f) ==
    IF ~csv_is_empty_or_missing(f) THEN f
    ELSE [exists |-> TRUE, rows |-> <<CSV_HEADER>>]

\* Whether read_last_open_time_ms raises (the ValueError of utc_str_to_ms).
read_raises(sf) ==
    /\ sf.exists
    /\ LET s == Strip(sf.text)
       IN  s # <<>> /\ ~IsDigit(s) /\ utc_str_raises(s)

read_last_open_time_ms(sf) ==
    IF ~sf.exists THEN None
    ELSE LET s == Strip(sf.text)
         IN  IF s = <<>> THEN None
             ELSE IF IsDigit(s) THEN StrToInt(s)
             ELSE utc_str_to_ms(s)

\* Always the new format; the old content is overwritten.
write_last_open_time_ms(ms) == [exists |-> TRUE, text |-> ms_to_utc_str(ms)]

\* A kline as the API returns it: twelve fields, the open time first and the
\* close time seventh; prices and volumes are strings.
Kline(open) ==
    << open, "o", "h", "l", "c", "v", open + Interval - 1, "q", 1, "b", "t", "0" >>

kline_to_row(k) ==
    << IntToStr(k[1]), Tok(k[2]), Tok(k[3]), Tok(k[4]), Tok(k[5]), Tok(k[6]),
       IntToStr(k[7]), Tok(k[8]), IntToStr(k[9]), Tok(k[10]), Tok(k[11]) >>

\* [kline_to_row(k) for k in closed]
Rows(klines) == [i \in 1..Len(klines) |-> kline_to_row(klines[i])]

\* (mutant) the file is opened with "w": the rows replace its content
append_rows_overwrites(f, rows) ==
    IF rows = <<>> THEN f ELSE [exists |-> TRUE, rows |-> rows]

\* (mutant) nothing is written
append_rows_nothing(f, rows) == f

\* open(CSV_PATH, "a") and writerows; nothing is opened for no rows.
append_rows(f, rows) ==
    IF rows = <<>> THEN f
    ELSE [exists |-> TRUE, rows |-> f.rows \o rows]

\* (mutant) every record of the page is kept, closed or not
filter_closed_keeps_all(klines, now) == klines

\* (mutant) a record that closes exactly at now is dropped
filter_closed_strict(klines, now) == SelectSeq(klines, LAMBDA k : k[7] < now)

\* Keep only candles whose close time is <= now.
filter_closed(klines, now) == SelectSeq(klines, LAMBDA k : k[7] <= now)

(***************************************************************************)
(* The remote source.  Upstream holds one candle per interval, opened at   *)
(* the multiples of Interval up to the wall clock; the last one is still   *)
(* open.  A fetch answers with a page (or fails: see the Fail actions).    *)
(*   "exact"  : the API's contract: the first `limit` candles with         *)
(*              open_time >= startTime, the last `limit` without one;      *)
(*   "sparse" : ascending, open_time >= startTime, but records may be      *)
(*              missing: any `limit` or fewer of the first limit + 1       *)
(*              candles (of the last limit + 1 without a startTime);       *)
(*   "echo"   : a misbehaving source that may also return the candle just  *)
(*              before startTime (it echoes the cursor's record): the      *)
(*              page of "exact", or that candle and the first limit - 1,   *)
(*              or that candle alone, or nothing.                          *)
(***************************************************************************)
Sources == {"exact", "sparse", "echo"}

Opens(now) == {k * Interval : k \in 0..(now \div Interval)}

Min(S) == CHOOSE x \in S : \A y \in S : x <= y

Max(S) == CHOOSE x \in S : \A y \in S : x >= y

RECURSIVE Ascending(_)
Ascending(S) ==
    IF S = {} THEN <<>> ELSE <<Min(S)>> \o Ascending(S \ {Min(S)})

RECURSIVE Largest(_, _)
Largest(S, n) ==
    IF n = 0 \/ S = {} THEN {} ELSE {Max(S)} \cup Largest(S \ {Max(S)}, n - 1)

RECURSIVE Smallest(_, _)
Smallest(S, n) ==
    IF n = 0 \/ S = {} THEN {} ELSE {Min(S)} \cup Smallest(S \ {Min(S)}, n - 1)

Page(S) == LET a == Ascending(S) IN [i \in 1..Len(a) |-> Kline(a[i])]

\* The pages fetch_klines(start_ms, limit) may return at wall-clock time now.
fetch_klines(src, now, start_ms, limit) ==
    LET since == IF start_ms = None THEN Opens(now)
                 ELSE {o \in Opens(now) : o >= start_ms}
        first(n) == IF start_ms = None THEN Largest(since, n)
                    ELSE Smallest(since, n)
        before   == IF start_ms = None THEN {}
                    ELSE Largest({o \in Opens(now) : o < start_ms}, 1)
        some(C)  == {Page(S) : S \in {T \in SUBSET C : Cardinality(T) <= limit}}
    IN  CASE src = "exact"  -> {Page(S) : S \in {first(limit)}}
          [] src = "sparse" -> some(first(limit + 1))
          [] OTHER          -> {Page(S) : S \in { first(limit),
                                                  before \cup first(limit - 1),
                                                  before,
                                                  {} }}

(***************************************************************************)
(* State.                                                                  *)
(***************************************************************************)
VARIABLES
    clock,        \* time.time() * 1000
    source,       \* how the remote source behaves (fixed)
    cold,         \* whether the first invocation found a cold start (fixed)
    csv,          \* CSV_PATH
    state,        \* STATE_PATH
    pc,           \* where the collector is
    err,          \* the exception that ended the last invocation, or "none"
    now_ms,       \* backfill_last_n_days: now_ms
    cursor,       \* backfill_last_n_days: cursor
    newest_open,  \* backfill_last_n_days: newest_open
    kl,           \* the page of the last fetch that returned
    runs,         \* invocations of main started
    obs,          \* what the current invocation did (observation only)
    mig           \* how the last run of the migration script ended

vars == << clock, source, cold, csv, state, pc, err, now_ms, cursor,
           newest_open, kl, runs, obs, mig >>

DayMs == 24 * 60 * 60 * 1000

\* The wall clock at the start: the lookback window begins a day after 0,
\* and the clock reads the very close time of a candle every other tick.
Clock0 == (DAYS_BACKFILL + 1) * DayMs - 1

HalfInterval == Interval \div 2

ClockMax == Clock0 + MaxTicks * HalfInterval

\* The open time of the newest candle closed at time now.
LastClosedOpen(now) == ((now + 1) \div Interval - 1) * Interval

\* A candle stored before the first invocation, where the disk holds one.
W0 == LastClosedOpen(Clock0) - Interval

OldFile == [exists |-> TRUE, rows |-> <<CSV_HEADER, kline_to_row(Kline(W0))>>]

Text(t) == [exists |-> TRUE, text |-> t]

\* The disks the first invocation may find: whether it is a cold start, the
\* CSV file, the state file.
ColdDisk == <<TRUE, NoFile, NoState>>

\* The old format: decimal milliseconds (and the editor's newline).
LegacyDisk == <<FALSE, OldFile, Text(IntToStr(W0) \o <<"\n">>)>>

\* A data file of length zero, no watermark.
EmptyFileDisk == <<TRUE, [exists |-> TRUE, rows |-> <<>>], NoState>>

Disks ==
    { ColdDisk,
      EmptyFileDisk,
      \* the data file was removed, the state file kept
      <<FALSE, NoFile, write_last_open_time_ms(W0)>>,
      LegacyDisk,
      \* a date and time without " UTC"
      <<FALSE, OldFile, Text(RemoveUtc(ms_to_utc_str(W0)))>>,
      \* neither digits nor a date
      <<FALSE, OldFile, Text(<<"n", "/", "a">>)>>,
      \* white space only
      <<FALSE, OldFile, Text(<<"\n">>)>> }

NoObs ==
    [ startAbsent |-> FALSE, startEmpty |-> FALSE, backfill |-> FALSE,
      incremental |-> FALSE, starts |-> <<>>, inc_now |-> None,
      inc_rows |-> 0, inc_state |-> NoState, inc_ret |-> None,
      prev_inc_now |-> None, clean |-> TRUE ]

InitWith(srcs, disks) ==
    /\ clock = Clock0
    /\ source \in srcs
    /\ \E d \in disks : cold = d[1] /\ csv = d[2] /\ state = d[3]
    /\ pc = "idle"
    /\ err = "none"
    /\ now_ms = None /\ cursor = None /\ newest_open = None
    /\ kl = <<>>
    /\ runs = 0
    /\ obs = NoObs
    /\ mig = "none"

(***************************************************************************)
(* main.  An invocation starts when none is running; no two overlap.       *)
(***************************************************************************)
Resting == pc \in {"idle", "done", "aborted"}

\* (mutant) the exception is caught and the failed step is tried again
RaiseAndRetry(e) == pc' = pc /\ err' = e

\* The exception leaves main: nothing of the invocation runs after it.
Raise(e) == pc' = "aborted" /\ err' = e

\* main up to the call of a phase: ensure_dirs, ensure_csv_header, the first
\* read of the watermark and the decision; where backfill is chosen, the
\* first lines of backfill_last_n_days as well.
NeedsBackfill(last_open, f) == last_open = None \/ csv_is_empty_or_missing(f)

\* The observations of a new invocation: the now of the incremental phase
\* of the one before it, if that one completed, and whether every invocation
\* so far completed.
StartObs ==
    [NoObs EXCEPT !.prev_inc_now = IF pc = "done" THEN obs.inc_now ELSE None,
                  !.clean = obs.clean /\ pc # "aborted"]

StartMain(max) ==
    /\ Resting
    /\ runs < max
    /\ runs' = runs + 1
    /\ csv' = ensure_csv_header(csv)
    /\ kl' = <<>>
    /\ UNCHANGED << clock, source, cold, state, mig >>
    /\ IF read_raises(state)
       THEN /\ Raise("ValueError")
            /\ obs' = [StartObs EXCEPT !.startEmpty = csv_is_empty_or_missing(csv)]
            /\ UNCHANGED << now_ms, cursor, newest_open >>
       ELSE LET last_open == read_last_open_time_ms(state)
                backfill  == NeedsBackfill(last_open, csv')
            IN  /\ err' = "none"
                /\ obs' = [StartObs EXCEPT
                             !.startAbsent = (last_open = None),
                             !.startEmpty = csv_is_empty_or_missing(csv),
                             !.backfill = backfill]
                /\ IF backfill
                   THEN /\ pc' = "backfill"
                        /\ now_ms' = clock
                        /\ cursor' = clock - BackfillWindow
                        /\ newest_open' = None
                   ELSE /\ pc' = "incremental"
                        /\ UNCHANGED << now_ms, cursor, newest_open >>

\* (mutant) the loop goes on after a page that does not move the cursor
BackfillStopsUnguarded(page, cur, now) ==
    \/ page = <<>>
    \/ page[Len(page)][1] + 1 >= now

\* One turn of the loop of backfill_last_n_days, the fetch having returned.
\* The loop ends (pc "backfilled") on an empty page, on a page that does not
\* move the cursor forward, and when the cursor reaches now_ms.
BackfillStops(page, cur, now) ==
    \/ page = <<>>
    \/ page[Len(page)][1] <= cur
    \/ page[Len(page)][1] + 1 >= now

BackfillPage ==
    /\ pc = "backfill"
    /\ \E page \in fetch_klines(source, clock, cursor, LIMIT) :
         LET closed == filter_closed(page, now_ms)
         IN  /\ kl' = page
             /\ csv' = append_rows(csv, Rows(closed))
             /\ newest_open' = IF closed # <<>> THEN closed[Len(closed)][1]
                                ELSE newest_open
             /\ cursor' = IF page # <<>> /\ page[Len(page)][1] > cursor
                           THEN page[Len(page)][1] + 1
                           ELSE cursor
             /\ pc' = IF BackfillStops(page, cursor, now_ms) THEN "backfilled"
                       ELSE "backfill"
    /\ obs' = [obs EXCEPT !.starts = Append(@, cursor)]
    /\ UNCHANGED << clock, source, cold, state, err, now_ms, runs, mig >>

\* requests raises (network error, timeout, raise_for_status) in the loop.
BackfillFail ==
    /\ pc = "backfill"
    /\ Raise("TransportError")
    /\ obs' = [obs EXCEPT !.starts = Append(@, cursor)]
    /\ UNCHANGED << clock, source, cold, csv, state, now_ms, cursor,
                    newest_open, kl, runs, mig >>

\* backfill_last_n_days returns newest_open; main writes it if it is one.
BackfillReturn ==
    /\ pc = "backfilled"
    /\ state' = IF newest_open # None THEN write_last_open_time_ms(newest_open)
                 ELSE state
    /\ pc' = "incremental"
    /\ UNCHANGED << clock, source, cold, csv, err, now_ms, cursor,
                    newest_open, kl, runs, obs, mig >>

\* (mutant) the fetch starts at the watermark, not after it
IncrementalStartAtWatermark(last_open) == last_open

\* The startTime of the incremental fetch.
IncrementalStart(last_open) == IF last_open # None THEN last_open + 1 ELSE None

\* update_incremental, the fetch having returned, and the end of main.
Incremental ==
    /\ pc = "incremental"
    /\ IF read_raises(state)
       THEN /\ Raise("ValueError")
            /\ UNCHANGED << csv, state, kl, obs >>
       ELSE \E start \in {IncrementalStart(read_last_open_time_ms(state))} :
                \E page \in fetch_klines(source, clock, start, LIMIT) :
                  LET closed == filter_closed(page, clock)
                      newest == IF closed = <<>> THEN None
                                ELSE closed[Len(closed)][1]
                  IN  /\ kl' = page
                      /\ csv' = append_rows(csv, Rows(closed))
                      /\ state' = IF newest # None
                                   THEN write_last_open_time_ms(newest)
                                   ELSE state
                      /\ pc' = "done"
                      /\ err' = "none"
                      /\ obs' = [obs EXCEPT !.incremental = TRUE,
                                            !.starts = Append(@, start),
                                            !.inc_now = clock,
                                            !.inc_rows = Len(closed),
                                            !.inc_state = state,
                                            !.inc_ret = newest]
    /\ UNCHANGED << clock, source, cold, now_ms, cursor, newest_open, runs,
                    mig >>

\* requests raises in update_incremental.
IncrementalFail ==
    /\ pc = "incremental"
    /\ ~read_raises(state)
    /\ Raise("TransportError")
    /\ obs' = [obs EXCEPT
                 !.incremental = TRUE,
                 !.inc_now = clock,
                 !.inc_state = state,
                 !.starts =
                     Append(@, IncrementalStart(read_last_open_time_ms(state)))]
    /\ UNCHANGED << clock, source, cold, csv, state, now_ms, cursor,
                    newest_open, kl, runs, mig >>

\* Time passes.
Tick ==
    /\ clock < ClockMax
    /\ clock' = clock + HalfInterval
    /\ UNCHANGED << source, cold, csv, state, pc, err, now_ms, cursor,
                    newest_open, kl, runs, obs, mig >>

(***************************************************************************)
(* migrate_inline.py, run as a whole between invocations of main.          *)
(***************************************************************************)
UtcColumn == Tok("open_time_utc")

\* (mutant) the header is not inspected
IsMigratedNever(header) == FALSE

\* "open_time_utc" in header
IsMigrated(header) == \E i \in 1..Len(header) : header[i] = UtcColumn

\* row[:1] + [cell] + row[1:]
InsertSecond(row, cell) == SubSeq(row, 1, 1) \o <<cell>> \o SubSeq(row, 2, Len(row))

\* The file the script leaves: the header with the new column, every data
\* row with the UTC text of its first cell.
migrate_rows(rows) ==
    [i \in 1..Len(rows) |->
        IF i = 1 THEN InsertSecond(rows[1], UtcColumn)
        ELSE InsertSecond(rows[i], ms_to_utc_str(StrToInt(rows[i][1])))]

\* How the script ends on file f: "missing" (SystemExit, CSV not found),
\* "crashed" (next(reader) on a file without a line), "already" (the marker
\* column is there), "migrated".
migrate_exit(f) ==
    IF ~f.exists THEN "missing"
    ELSE IF f.rows = <<>> THEN "crashed"
    ELSE IF IsMigrated(f.rows[1]) THEN "already"
    ELSE "migrated"

Migrate ==
    /\ Resting
    /\ mig' = migrate_exit(csv)
    /\ csv' = IF mig' = "migrated"
               THEN [exists |-> TRUE, rows |-> migrate_rows(csv.rows)]
               ELSE csv
    /\ UNCHANGED << clock, source, cold, state, pc, err, now_ms, cursor,
                    newest_open, kl, runs, obs >>

\* What an invocation does once it has started, and the passing of time.
Run ==
    \/ BackfillPage
    \/ BackfillFail
    \/ BackfillReturn
    \/ Incremental
    \/ IncrementalFail
    \/ Tick

(***************************************************************************)
(* The collector against a source that keeps the API's contract: up to     *)
(* MaxRuns invocations from every disk.                                    *)
(***************************************************************************)
Init == InitWith({"exact"}, Disks)

MainStart == StartMain(MaxRuns)

Next == MainStart \/ Run

Spec == Init /\ [][Next]_vars

(***************************************************************************)
(* The collector against a source that is ascending and honours startTime  *)
(* but may leave records out: one invocation fewer, from a cold start and  *)
(* from a disk that holds a row and its watermark.                         *)
(***************************************************************************)
SparseInit == InitWith({"sparse"}, {ColdDisk, LegacyDisk})

SparseStart == StartMain(MaxRuns - 1)

SparseNext == SparseStart \/ Run

SparseSpec == SparseInit /\ [][SparseNext]_vars

(***************************************************************************)
(* One invocation against a source that may echo the cursor's record.      *)
(***************************************************************************)
EchoInit == InitWith({"echo"}, {ColdDisk, LegacyDisk})

EchoStart == StartMain(1)

EchoNext == EchoStart \/ Run

EchoSpec == EchoInit /\ [][EchoNext]_vars

(***************************************************************************)
(* The collector and the migration script, against the API's contract:    *)
(* one invocation fewer, from a data file that is absent, of length zero,  *)
(* or holds a row.                                                         *)
(***************************************************************************)
MigInit == InitWith({"exact"}, {ColdDisk, EmptyFileDisk, LegacyDisk})

MigStart == StartMain(MaxRuns - 1)

MigNext == MigStart \/ Run \/ Migrate

MigSpec == MigInit /\ [][MigNext]_vars

(***************************************************************************)
(* The watermark's two encodings.  A timestamp is stored as main stores    *)
(* it (write_last_open_time_ms) or as the old format held it (decimal      *)
(* milliseconds); update_incremental then reads the file and computes the  *)
(* start of its fetch.  Timestamps: the first and the last second of the   *)
(* first and the last minute of the first and the last hour of each of     *)
(* the first MaxStampDay + 1 days, and moments within those seconds.       *)
(***************************************************************************)
MaxStampDay == 3

Stamps ==
    { ((d * 24 + h) * 3600 + m * 60 + sec) * MsPerSec + frac :
        d \in 0..MaxStampDay, h \in {0, 23}, m \in {0, 59}, sec \in {0, 59},
        frac \in {0, 1, 999} }

CodecInit ==
    /\ clock = Clock0
    /\ source = "exact"
    /\ cold = FALSE /\ csv = NoFile /\ state = NoState
    /\ pc = "stamp"
    /\ err = "none"
    /\ now_ms = None /\ cursor = None
    /\ newest_open \in Stamps
    /\ kl = <<>>
    /\ runs = 0
    /\ obs = NoObs
    /\ mig = "none"

\* write_last_open_time_ms(newest_open)
WriteCurrent ==
    /\ pc = "stamp"
    /\ state' = write_last_open_time_ms(newest_open)
    /\ pc' = "current"
    /\ UNCHANGED << clock, source, cold, csv, err, now_ms, cursor, newest_open,
                    kl, runs, obs, mig >>

\* The file as the old format held newest_open: str(ms).
WriteLegacy ==
    /\ pc = "stamp"
    /\ state' = Text(IntToStr(newest_open))
    /\ pc' = "legacy"
    /\ UNCHANGED << clock, source, cold, csv, err, now_ms, cursor, newest_open,
                    kl, runs, obs, mig >>

\* The first lines of update_incremental: last_open and start.
ReadStart ==
    /\ pc \in {"current", "legacy"}
    /\ ~read_raises(state)
    /\ obs' = [obs EXCEPT
                 !.starts =
                     Append(@, IncrementalStart(read_last_open_time_ms(state)))]
    /\ pc' = IF pc = "current" THEN "read_current" ELSE "read_legacy"
    /\ UNCHANGED << clock, source, cold, csv, state, err, now_ms, cursor,
                    newest_open, kl, runs, mig >>

CodecNext == WriteCurrent \/ WriteLegacy \/ ReadStart

CodecSpec == CodecInit /\ [][CodecNext]_vars

(***************************************************************************)
(* One invocation against the echoing source in which every fetch returns: *)
(* a turn of the backfill loop that can be taken is taken.                 *)
(***************************************************************************)
EchoLive == EchoSpec /\ WF_vars(BackfillPage)

(***************************************************************************)
(* One page through filter_closed, as the body of the backfill loop does   *)
(* it: filter, rows, append, newest_open.  The page is any sequence of at  *)
(* most MaxPageLen of three records, in any order and with repeats; now_ms *)
(* is the close time of one of them or the millisecond before it.          *)
(***************************************************************************)
MaxPageLen == 3

PageRecords == {Kline(o) : o \in {0, Interval, 2 * Interval}}

Pages == UNION {[1..n -> PageRecords] : n \in 0..MaxPageLen}

Nows == {k * Interval - 1 - d : k \in 1..3, d \in {0, 1}}

FilterInit ==
    /\ clock = Clock0
    /\ source = "exact"
    /\ cold = FALSE /\ csv = NoFile /\ state = NoState
    /\ pc = "page"
    /\ err = "none"
    /\ now_ms \in Nows
    /\ cursor = None /\ newest_open = None
    /\ kl \in Pages
    /\ runs = 0
    /\ obs = NoObs
    /\ mig = "none"

FilterPage ==
    /\ pc = "page"
    /\ LET closed == filter_closed(kl, now_ms)
       IN  /\ csv' = append_rows(csv, Rows(closed))
           /\ newest_open' = IF closed # <<>> THEN closed[Len(closed)][1]
                              ELSE newest_open
    /\ pc' = "filtered"
    /\ UNCHANGED << clock, source, cold, state, err, now_ms, cursor, kl, runs,
                    obs, mig >>

FilterNext == FilterPage

FilterSpec == FilterInit /\ [][FilterNext]_vars

(***************************************************************************)
(* Catching up after downtime.  The disk holds the watermark W0 (in the    *)
(* old format, in the current one, without the suffix, or with the data    *)
(* file removed); time passes while the collector is not run; then         *)
(* invocations follow one another at that time, no fetch fails, and each   *)
(* invocation that can start or go on does so.                             *)
(***************************************************************************)
WatermarkDisks ==
    { LegacyDisk,
      <<FALSE, OldFile, write_last_open_time_ms(W0)>>,
      <<FALSE, NoFile, write_last_open_time_ms(W0)>>,
      <<FALSE, OldFile, Text(RemoveUtc(ms_to_utc_str(W0)))>> }

CatchUpInit == InitWith({"exact"}, WatermarkDisks)

\* Time passes before the first invocation.
Downtime == runs = 0 /\ Tick

CatchUpNext == Downtime \/ MainStart \/ Incremental

CatchUpSpec ==
    /\ CatchUpInit /\ [][CatchUpNext]_vars
    /\ WF_vars(MainStart) /\ WF_vars(Incremental)

(***************************************************************************)
(* Reading the data file back.                                             *)
(***************************************************************************)
\* The rows after the header: those whose first cell is a number.
DataRows(f) == SelectSeq(f.rows, LAMBDA r : IsDigit(r[1]))

\* The open_time of every data row, in file order.
OpenTimes(f) == LET d == DataRows(f) IN [i \in 1..Len(d) |-> StrToInt(d[i][1])]

NoRepeats(q) == \A i, j \in 1..Len(q) : i # j => q[i] # q[j]

StrictlyIncreasing(q) == \A i \in 1..Len(q) - 1 : q[i] < q[i + 1]

Last(q) == q[Len(q)]

\* The collector started from a cold start: no data file (or an empty one),
\* no watermark.
ColdStart == cold

(***************************************************************************)
(* C1.  For any sequence of invocations of main, each completing or        *)
(* aborting at a fetch with a transport failure, against a source that     *)
(* returns ascending records with open_time >= startTime, the open times   *)
(* of the data rows hold no repeats.  Stated for the runs since a cold     *)
(* start, under Spec (the source keeps the API's contract).                *)
(* The code breaks it: a backfill that is aborted after its first page     *)
(* leaves rows without a watermark, and the next invocation backfills the  *)
(* same records again.                                                     *)
(***************************************************************************)
C1_NoDuplicateRows == ColdStart => NoRepeats(OpenTimes(csv))

(***************************************************************************)
(* C2.  After a run is aborted by a transport failure at any fetch, the    *)
(* watermark is consistent with the rows written: whenever the data file   *)
(* holds data rows, the watermark is present and is the open time of the   *)
(* last data row.  Stated for the first invocation after a cold start.     *)
(* The code breaks it: backfill writes no watermark until its loop ends.   *)
(***************************************************************************)
C2_AbortLeavesWatermarkConsistent ==
    (ColdStart /\ runs = 1 /\ pc = "aborted" /\ err = "TransportError"
        /\ DataRows(csv) # <<>>)
    => (read_last_open_time_ms(state) # None
        /\ read_last_open_time_ms(state) = Last(OpenTimes(csv)))

(***************************************************************************)
(* C3.  An invocation runs the backfill phase if and only if, when it      *)
(* starts, the watermark is absent or the data file is missing or of       *)
(* length zero; the incremental phase runs in every invocation that does   *)
(* not abort before it.                                                    *)
(* The code breaks it: ensure_csv_header has written the header by the     *)
(* time main asks csv_is_empty_or_missing, so a present watermark with a   *)
(* missing data file runs no backfill.                                     *)
(***************************************************************************)
C3_BackfillIffAbsentOrEmpty ==
    (runs >= 1 /\ err # "ValueError")
    => /\ obs.backfill <=> (obs.startAbsent \/ obs.startEmpty)
       /\ (pc = "done") => obs.incremental

(***************************************************************************)
(* C4.  Starting from a cold start, after any sequence of invocations that *)
(* each complete without error, against a source that returns ascending    *)
(* records with open_time >= startTime, the open times of the data rows    *)
(* are strictly increasing in file order.  Checked in every state of such  *)
(* a sequence (also in the middle of an invocation).                       *)
(***************************************************************************)
C4_StrictlyIncreasing ==
    (ColdStart /\ obs.clean /\ pc # "aborted")
    => StrictlyIncreasing(OpenTimes(csv))

\* Two invocations completed; the second appended rows after the first's.
C4_Witness ==
    /\ ColdStart /\ obs.clean /\ pc = "done" /\ runs = 2
    /\ obs.inc_rows >= 1
    /\ Len(DataRows(csv)) > obs.inc_rows

(***************************************************************************)
(* C5.  From a cold start, one invocation of main that meets no failure,   *)
(* against a source that keeps the API's contract and with fewer than a    *)
(* page of records closing between the two phases, ends with the data file *)
(* holding every record of the lookback window that is closed as of the    *)
(* incremental phase's now, without gap, and with the watermark at the     *)
(* open time of the latest closed record.                                  *)
(***************************************************************************)
\* The records of the lookback window of a backfill that started at `from`,
\* closed at time `upto`.
ClosedInWindow(from, upto) ==
    {o \in Opens(upto) : o >= from - BackfillWindow /\ o + Interval - 1 <= upto}

\* The number of records that close after time a and no later than time b.
ClosedBetween(a, b) == (LastClosedOpen(b) - LastClosedOpen(a)) \div Interval

C5_ColdStartComplete ==
    (/\ ColdStart /\ runs = 1 /\ pc = "done" /\ obs.backfill
     /\ ClosedBetween(now_ms, obs.inc_now) < LIMIT)
    => /\ OpenTimes(csv) = Ascending(ClosedInWindow(now_ms, obs.inc_now))
       /\ read_last_open_time_ms(state) = LastClosedOpen(obs.inc_now)

\* The backfill took more than one page, a record closed between the phases
\* and the incremental phase appended it.
C5_Witness ==
    /\ ColdStart /\ runs = 1 /\ pc = "done" /\ obs.backfill
    /\ ClosedBetween(now_ms, obs.inc_now) = 1
    /\ ClosedBetween(now_ms, obs.inc_now) < LIMIT
    /\ obs.inc_rows = 1
    /\ Len(DataRows(csv)) > LIMIT + 1

(***************************************************************************)
(* C6.  Two invocations in succession, both completing, the second with a  *)
(* watermark present and running the incremental phase only, no record     *)
(* closing between the two incremental phases: the second appends no row   *)
(* and leaves the watermark file as it was.                                *)
(* As stated this does not hold: the incremental phase takes one page, so  *)
(* after a backlog of more than a page the second invocation appends the   *)
(* next page although nothing new closed upstream.                         *)
(***************************************************************************)
\* The second of two completed invocations has run its incremental phase
\* alone, and no record closed between the two incremental phases.
TwiceNothingNew ==
    /\ runs >= 2 /\ pc = "done" /\ ~obs.backfill
    /\ obs.prev_inc_now # None
    /\ read_last_open_time_ms(obs.inc_state) # None
    /\ LastClosedOpen(obs.prev_inc_now) = LastClosedOpen(obs.inc_now)

\* The second invocation appended nothing and wrote no watermark.
SecondIsNoOp == obs.inc_rows = 0 /\ obs.inc_ret = None /\ state = obs.inc_state

C6_SecondRunAppendsNothing == TwiceNothingNew => SecondIsNoOp

(***************************************************************************)
(* C6 (amended).  The same, where the first of the two invocations caught  *)
(* up: it left the watermark at the open time of the newest closed record. *)
(***************************************************************************)
C6_SecondRunAppendsNothingOnceCaughtUp ==
    (/\ TwiceNothingNew
     /\ read_last_open_time_ms(obs.inc_state) = LastClosedOpen(obs.prev_inc_now))
    => SecondIsNoOp

\* The second invocation ran later than the first, found a record still open
\* and appended nothing.
C6_Witness ==
    /\ TwiceNothingNew
    /\ read_last_open_time_ms(obs.inc_state) = LastClosedOpen(obs.prev_inc_now)
    /\ obs.inc_now > obs.prev_inc_now
    /\ kl # <<>>
    /\ SecondIsNoOp

(***************************************************************************)
(* C7.  The backfill loop terminates whatever the source returns, as long  *)
(* as each fetch returns: every turn of the loop either ends it or         *)
(* strictly increases the cursor, the loop goes on only while the cursor   *)
(* is below now_ms, a page that does not advance (last open_time <=        *)
(* cursor) ends it at once with the cursor where it was, the value         *)
(* returned is the newest open time accepted, and a backfill that has      *)
(* started eventually leaves the loop.  Checked under EchoLive, whose      *)
(* source may echo the record before the cursor.                           *)
(***************************************************************************)
\* A turn of the loop: a fetch of the backfill phase returned.
BackfillTurn ==
    pc = "backfill" /\ obs'.starts # obs.starts /\ pc' \in {"backfill", "backfilled"}

NonAdvancing(page, cur) == page # <<>> /\ Last(page)[1] <= cur

\* The newest open time accepted so far, given the page of this turn.
NewestAccepted(page) ==
    IF filter_closed(page, now_ms) # <<>>
    THEN Last(filter_closed(page, now_ms))[1]
    ELSE newest_open

C7_BackfillTerminates ==
    /\ [][BackfillTurn =>
            /\ pc' = "backfilled" \/ cursor' > cursor
            /\ pc' = "backfill" => cursor' < now_ms
            /\ NonAdvancing(kl', cursor) =>
                  pc' = "backfilled" /\ cursor' = cursor
            /\ newest_open' = NewestAccepted(kl')]_vars
    /\ (pc = "backfill") ~> (pc # "backfill")

\* The loop was ended by a page that did not advance, after rows were
\* accepted.
C7_Witness ==
    /\ pc = "backfilled"
    /\ NonAdvancing(kl, cursor)
    /\ cursor < now_ms
    /\ newest_open # None
    /\ Len(obs.starts) >= 2

(***************************************************************************)
(* C8.  For every millisecond timestamp t, reading the watermark after     *)
(* writing t gives t, as reading a legacy file with the decimal digits of  *)
(* t does; in both encodings the next incremental fetch starts at t + 1.   *)
(* As stated this does not hold: the current encoding keeps whole seconds  *)
(* only, so a timestamp within a second reads back as the start of that    *)
(* second.                                                                 *)
(***************************************************************************)
\* The file written from newest_open, in either encoding, was read back.
ReadBack == pc \in {"read_current", "read_legacy"}

RoundTrip ==
    /\ read_last_open_time_ms(state) = newest_open
    /\ obs.starts = <<newest_open + 1>>

C8_RoundTripEveryMillisecond == ReadBack => RoundTrip

(***************************************************************************)
(* C8 (amended).  The same for every timestamp t that is a whole number of *)
(* seconds, as the open time of every record is.                           *)
(***************************************************************************)
C8_RoundTripWholeSeconds ==
    (ReadBack /\ newest_open % MsPerSec = 0) => RoundTrip

\* The last second of a day other than the first, written in the current
\* encoding and read back.
C8_Witness ==
    /\ pc = "read_current"
    /\ newest_open % MsPerSec = 0
    /\ newest_open > DayMs
    /\ (newest_open + MsPerSec) % DayMs = 0
    /\ RoundTrip

(***************************************************************************)
(* C9.  After a fetch fails with a transport error the invocation does     *)
(* nothing more: the step of the failed fetch ends the invocation with     *)
(* that error and leaves both files as they were, and until another        *)
(* invocation starts there is no fetch, no append and no watermark write.  *)
(***************************************************************************)
\* The step in which a fetch fails: a fetch is issued and the error is set.
FetchFails == obs'.starts # obs.starts /\ err' = "TransportError"

C9_FailureAbortsRun ==
    [][/\ FetchFails =>
            /\ pc' = "aborted"
            /\ csv' = csv /\ state' = state
       /\ (pc = "aborted" /\ err = "TransportError" /\ runs' = runs) =>
            /\ pc' = "aborted" /\ err' = "TransportError"
            /\ csv' = csv /\ state' = state
            /\ obs'.starts = obs.starts]_vars

\* A later fetch of the backfill loop failed after rows were appended, and
\* time has passed since.
C9_Witness ==
    /\ pc = "aborted" /\ err = "TransportError"
    /\ obs.backfill /\ Len(obs.starts) >= 2
    /\ DataRows(csv) # <<>>
    /\ clock > now_ms

(***************************************************************************)
(* C10.  When the watermark file holds non-empty text that is neither a    *)
(* string of digits nor of the form 'YYYY-MM-DD HH:MM:SS UTC', the         *)
(* invocation aborts with an error at the first read of the watermark: no  *)
(* fetch, no data row appended, the watermark file as it was.              *)
(* The code breaks it: strptime is applied to the text with " UTC"         *)
(* removed, so a date and time without the suffix is read as a watermark   *)
(* and the invocation goes on.                                             *)
(***************************************************************************)
\* 'YYYY-MM-DD HH:MM:SS UTC', character by character.
IsUtcForm(s) ==
    /\ Len(s) = 23
    /\ \A i \in {1, 2, 3, 4, 6, 7, 9, 10, 12, 13, 15, 16, 18, 19} :
         IsDigitChar(s[i])
    /\ s[5] = "-" /\ s[8] = "-" /\ s[11] = " " /\ s[14] = ":" /\ s[17] = ":"
    /\ SubSeq(s, 20, 23) = UtcSuffix

\* Text that is neither empty, nor digits, nor of the current form.
Malformed(sf) ==
    /\ sf.exists
    /\ Strip(sf.text) # <<>>
    /\ ~IsDigit(Strip(sf.text))
    /\ ~IsUtcForm(Strip(sf.text))

C10_MalformedWatermarkAborts ==
    (runs >= 1 /\ Malformed(state))
    => /\ pc = "aborted" /\ err = "ValueError"
       /\ obs.starts = <<>>
       /\ OpenTimes(csv) = <<W0>>

(***************************************************************************)
(* C11.  Under collector runs the header row is in the data file exactly   *)
(* once and is its first row: before the first invocation the file is      *)
(* absent, of length zero or already so; ensure_csv_header writes the      *)
(* header if and only if the file is absent or of length zero, and calling *)
(* it again changes nothing; once an invocation has started the header is  *)
(* there, so no data row is ever in a file without it.                     *)
(***************************************************************************)
\* The header is the first row and no other row.
HeaderOnce(f) ==
    /\ f.exists
    /\ f.rows # <<>>
    /\ f.rows[1] = CSV_HEADER
    /\ \A i \in 2..Len(f.rows) : f.rows[i] # CSV_HEADER

C11_HeaderOnceAndFirst ==
    /\ \E f \in {ensure_csv_header(csv)} :
          /\ HeaderOnce(f)
          /\ (f # csv) <=> (~csv.exists \/ csv.rows = <<>>)
          /\ ensure_csv_header(f) = f
    /\ (runs >= 1 \/ DataRows(csv) # <<>>) => HeaderOnce(csv)

\* A cold start: the first invocation wrote the header and rows, the second
\* found the file and appended more.
C11_Witness ==
    /\ ColdStart /\ runs = 2 /\ pc = "done"
    /\ HeaderOnce(csv)
    /\ obs.inc_rows >= 1
    /\ Len(DataRows(csv)) > obs.inc_rows

(***************************************************************************)
(* C12.  Every step of the collector leaves the prior content of the data  *)
(* file untouched: the rows before the step are a prefix of the rows after *)
(* it, a file that exists still exists, in completed and in aborted        *)
(* invocations; appending no rows changes nothing.                         *)
(***************************************************************************)
IsPrefix(p, q) == Len(p) <= Len(q) /\ SubSeq(q, 1, Len(p)) = p

C12_PriorContentKept ==
    [][/\ IsPrefix(csv.rows, csv'.rows)
       /\ csv.exists => csv'.exists
       /\ append_rows(csv, <<>>) = csv
       /\ filter_closed(kl', IF pc = "backfill" THEN now_ms ELSE clock) = <<>>
             => DataRows(csv') = DataRows(csv)]_vars

\* Rows of an earlier invocation are in the file, a later invocation
\* appended more and was then aborted.
C12_Witness ==
    /\ runs >= 2 /\ pc = "aborted" /\ err = "TransportError"
    /\ obs.backfill /\ Len(obs.starts) >= 2
    /\ Len(DataRows(csv)) > LIMIT + 1

(***************************************************************************)
(* C13.  filter_closed(klines, now_ms) is exactly the records of the page  *)
(* whose close_time <= now_ms, in their order in the page, for every page  *)
(* (ascending or not, with repeats or not) and every now_ms; a record that *)
(* closes at now_ms is kept.  The rows appended and newest_open are those  *)
(* of that result.                                                         *)
(***************************************************************************)
\* The positions of the page whose record has closed by time now.
KeptPositions(page, now) == {i \in 1..Len(page) : page[i][7] <= now}

\* The records at those positions, in the order of the positions.
Kept(page, now) ==
    [j \in 1..Cardinality(KeptPositions(page, now)) |->
        page[Ascending(KeptPositions(page, now))[j]]]

C13_FilterKeepsExactlyClosed ==
    /\ filter_closed(kl, now_ms) = Kept(kl, now_ms)
    /\ pc = "filtered" =>
          /\ csv.rows = Rows(Kept(kl, now_ms))
          /\ Kept(kl, now_ms) # <<>> => newest_open = Last(Kept(kl, now_ms))[1]

\* A page out of order: its first record closes exactly at now_ms and is
\* kept, a later one is still open and dropped, a third is kept after it.
C13_Witness ==
    /\ pc = "filtered"
    /\ Len(kl) = 3
    /\ kl[1][7] = now_ms
    /\ kl[2][7] > now_ms
    /\ kl[3][7] < now_ms
    /\ csv.rows = Rows(<<kl[1], kl[3]>>)

(***************************************************************************)
(* C14.  Running the migration script twice gives the file that running it *)
(* once gives: a run on a file whose header holds open_time_utc ends       *)
(* without changing the file, and a run that migrates leaves a header with *)
(* that column, every row kept, in order, with its original fields and one *)
(* cell inserted after open_time (the column name in the header, the UTC   *)
(* text of open_time in a data row).  A run that does not migrate changes  *)
(* nothing.                                                                *)
(***************************************************************************)
\* The header of file f names the column open_time_utc.
HasMarker(f) ==
    /\ f.exists /\ f.rows # <<>>
    /\ \E i \in 1..Len(f.rows[1]) : f.rows[1][i] = <<"open_time_utc">>

\* The row without its second cell.
RemoveSecond(row) == <<row[1]>> \o SubSeq(row, 3, Len(row))

\* File g is file f with one cell inserted after the first in every row.
OneColumnInserted(f, g) ==
    /\ g.exists
    /\ Len(g.rows) = Len(f.rows)
    /\ g.rows[1][2] = <<"open_time_utc">>
    /\ \A i \in 1..Len(f.rows) :
         /\ Len(g.rows[i]) = Len(f.rows[i]) + 1
         /\ RemoveSecond(g.rows[i]) = f.rows[i]
         /\ i > 1 => g.rows[i][2] = ms_to_utc_str(StrToInt(f.rows[i][1]))

C14_MigrationRunsOnce ==
    [][Migrate =>
         /\ HasMarker(csv) => (csv' = csv /\ mig' = "already")
         /\ mig' = "migrated" => (HasMarker(csv') /\ OneColumnInserted(csv, csv'))
         /\ mig' # "migrated" => csv' = csv]_vars

\* The script ran a second time on a migrated file that holds data rows.
C14_Witness ==
    /\ mig = "already"
    /\ HasMarker(csv)
    /\ Len(csv.rows) >= 3
    /\ \A i \in 2..Len(csv.rows) : Len(csv.rows[i]) = Len(csv.rows[1])

(***************************************************************************)
(* C15.  In both phases every append of a batch is followed by a write of  *)
(* the watermark, at the batch's newest open time, before the next fetch:  *)
(* no fetch is issued while appended rows are not covered by the stored    *)
(* watermark.  Stated for the first invocation after a cold start: where   *)
(* it is about to fetch and the file holds data rows, the watermark is the *)
(* open time of the last of them.                                          *)
(* The code breaks it: the backfill loop appends a page and fetches the    *)
(* next one; the watermark is written once, after the loop.                *)
(***************************************************************************)
\* The next step of the invocation is a fetch.
AboutToFetch == pc \in {"backfill", "incremental"}

C15_WatermarkAfterEachBatch ==
    (ColdStart /\ runs = 1 /\ AboutToFetch /\ DataRows(csv) # <<>>)
    => read_last_open_time_ms(state) = Last(OpenTimes(csv))

(***************************************************************************)
(* C16.  The incremental phase issues exactly one fetch per invocation,    *)
(* and repeated invocation catches up: with a fixed set of closed records  *)
(* newer than the watermark at the source (more than a page of them or     *)
(* not) and invocations that repeat without failure, eventually the        *)
(* incremental phase of an invocation returns None ("nothing new"), and    *)
(* whenever it does the data file holds every closed record newer than     *)
(* the initial watermark, in order and without gap.                        *)
(***************************************************************************)
\* The incremental phase of the invocation that just ended returned None.
NothingNew == pc = "done" /\ obs.inc_ret = None

\* The closed records newer than the initial watermark, at time now.
Backlog(now) == {o \in Opens(now) : o > W0 /\ o + Interval - 1 <= now}

NewerThan(q, w) == SelectSeq(q, LAMBDA o : o > w)

C16_RepeatedRunsCatchUp ==
    /\ [](pc = "done" => Len(obs.starts) = 1)
    /\ [](NothingNew => NewerThan(OpenTimes(csv), W0) = Ascending(Backlog(clock)))
    /\ <>NothingNew

\* More than a page had accumulated: the invocation that found nothing new
\* came after two that appended.
C16_Witness ==
    /\ NothingNew
    /\ runs >= 3
    /\ Cardinality(Backlog(clock)) > LIMIT
    /\ NewerThan(OpenTimes(csv), W0) = Ascending(Backlog(clock))

(***************************************************************************)
(* C17.  The watermark strictly increases: every write of the watermark,   *)
(* by main after a backfill or by update_incremental, in any sequence of   *)
(* invocations, stores a value strictly greater than the one the file held *)
(* before the write, where it held one.  Checked under Spec, whose source  *)
(* returns only records with open_time >= startTime.                       *)
(***************************************************************************)
\* The step calls write_last_open_time_ms: main with the value the backfill
\* returned, or update_incremental with its newest open time.
WritesWatermark ==
    \/ pc = "backfilled" /\ pc' = "incremental" /\ newest_open # None
    \/ pc = "incremental" /\ pc' = "done" /\ obs'.inc_ret # None

\* The file holds a watermark that can be read.
HoldsWatermark(sf) == ~read_raises(sf) /\ read_last_open_time_ms(sf) # None

C17_WatermarkStrictlyIncreases ==
    [][(WritesWatermark /\ HoldsWatermark(state)) =>
          /\ HoldsWatermark(state')
          /\ read_last_open_time_ms(state') > read_last_open_time_ms(state)]_vars

\* A later invocation read a watermark and wrote a greater one over it.
C17_Witness ==
    /\ runs >= 2 /\ pc = "done"
    /\ obs.inc_ret # None
    /\ HoldsWatermark(obs.inc_state)
    /\ read_last_open_time_ms(state) = obs.inc_ret
    /\ obs.inc_ret > read_last_open_time_ms(obs.inc_state)

(***************************************************************************)
(* C18.  Starting from a cold start, in every reachable state (within an   *)
(* invocation, after completed and after aborted ones) a watermark that is *)
(* present is the open time of a data row that is in the data file, and is *)
(* no greater than the largest open time in the file: the watermark is     *)
(* never ahead of the rows.                                                *)
(***************************************************************************)
\* The open times in the data file, as a set.
OpenTimeSet(f) ==
    {StrToInt(f.rows[i][1]) : i \in {j \in 1..Len(f.rows) : IsDigit(f.rows[j][1])}}

C18_WatermarkIsARow ==
    ColdStart
    => \E w \in {read_last_open_time_ms(state)} :
          w # None =>
             \E S \in {OpenTimeSet(csv)} :
                /\ w \in S
                /\ \E largest \in S : (\A o \in S : o <= largest) /\ w <= largest

\* An invocation completed and left a watermark; a later one was aborted at
\* its fetch.
C18_Witness ==
    /\ ColdStart /\ runs >= 2
    /\ pc = "aborted" /\ err = "TransportError"
    /\ HoldsWatermark(state)
    /\ read_last_open_time_ms(state) = Last(OpenTimes(csv))
    /\ Len(DataRows(csv)) > LIMIT

(***************************************************************************)
(* C19.  Under any interleaving of whole invocations of the collector and  *)
(* whole runs of the migration script on the same data file, every data    *)
(* row has as many fields as the header row.                               *)
(* The code breaks it: the script gives the header and the rows a twelfth  *)
(* column, and the collector goes on appending rows of eleven fields       *)
(* (kline_to_row) under that header.                                       *)
(***************************************************************************)
C19_RowsMatchHeader ==
    (csv.exists /\ csv.rows # <<>>)
    => \A i \in 2..Len(csv.rows) : Len(csv.rows[i]) = Len(csv.rows[1])

(***************************************************************************)
(* C20.  No unclosed record is ever persisted: every data row that a step  *)
(* appends has close_time <= the now_ms that the phase captured when it    *)
(* started (backfill: now_ms; incremental: the clock of its one step), the *)
(* tail record of a backfill page that is still open may move the cursor   *)
(* but is neither written nor taken as newest_open, and a watermark is     *)
(* written only at the open time of a row in the file that had closed by   *)
(* that now_ms.                                                            *)
(***************************************************************************)
\* now_ms of the phase that takes the step.
PhaseNow == IF pc \in {"backfill", "backfilled"} THEN now_ms ELSE clock

\* The data rows that the step appends.
Appended ==
    SelectSeq(SubSeq(csv'.rows, Len(csv.rows) + 1, Len(csv'.rows)),
              LAMBDA r : IsDigit(r[1]))

\* Row r is of a record that opened at time open and had closed by time now.
ClosedRowOf(r, open, now) ==
    IsDigit(r[1]) /\ StrToInt(r[1]) = open /\ StrToInt(r[7]) <= now

C20_NoUnclosedRecordPersisted ==
    [][/\ \A i \in 1..Len(Appended) : StrToInt(Appended[i][7]) <= PhaseNow
       /\ (BackfillTurn /\ kl' # <<>> /\ Last(kl')[7] > now_ms) =>
            /\ newest_open' # Last(kl')[1]
            /\ \A i \in 1..Len(Appended) :
                  StrToInt(Appended[i][1]) # Last(kl')[1]
       /\ WritesWatermark =>
            \E i \in 1..Len(csv'.rows) :
               ClosedRowOf(csv'.rows[i], read_last_open_time_ms(state'),
                           PhaseNow)]_vars

\* A backfill page ended with a record that was still open: the cursor
\* moved past it, the rows before it were written, it was not.
C20_Witness ==
    /\ pc = "backfill"
    /\ kl # <<>> /\ Last(kl)[7] > now_ms
    /\ cursor = Last(kl)[1] + 1
    /\ newest_open # None /\ newest_open < Last(kl)[1]
    /\ Last(OpenTimes(csv)) = newest_open

=============================================================================
